---- MODULE Spec2Model ----
(***************************************************************************)
(* Keep-alive infrastructure for two supervised bot workers.               *)
(*                                                                         *)
(* The repository ships three alternative entry points that share one      *)
(* design (HTTP status surface + self-ping loop + supervisor loop):        *)
(*   "keepalive"  : keep_bot_alive_24x7.py   (BotKeepAlive24x7)            *)
(*   "integrated" : run_bots_24x7_integrated.py (IntegratedBot24x7)        *)
(*   "cloud"      : run_cloud_24_7.py + webserver.py (CloudRunBotManager)  *)
(* The variable `variant` is fixed at Init and selects which program runs. *)
(***************************************************************************)
EXTENDS Integers, FiniteSets, Sequences, TLC

\* ---------------------------------------------------------------- bounds
MaxPings == 3         \* /keep-alive requests accepted in one behaviour
MaxFaults == 2        \* environment faults: worker exits, spawn/kill/poll errors
MaxRestartReqs == 2   \* /restart-bots requests accepted in one behaviour
MaxProcs == 3         \* operating-system process slots for worker processes
MaxTime == 1          \* clock readings after process start
MaxExtPings == 6      \* pings of one run of the external pinger

Variants == {"keepalive", "integrated", "cloud"}
KaThreads == {"k1", "k2"}              \* request threads serving /keep-alive
RbThreads == {"r1", "r2"}              \* request threads serving /restart-bots
Callers == {"main", "monitor"} \cup RbThreads
Workers == {"teacher", "student"}
Pids == 1..MaxProcs
None == 0

VARIABLES
    variant,          \* which entry point is running
    now,              \* datetime.now()
    pc_main,          \* position of the main thread (main / start / stop)
    running,          \* self.running
    ping_count,       \* self.ping_count   (webserver.keepalive_count)
    last_ping,        \* self.last_ping    (webserver.last_keepalive_ping)
    restart_count,    \* self.restart_count
    teacher_process,  \* self.teacher_process: None or a process
    student_process,  \* self.student_process: None or a process
    procs,            \* operating system: pid -> "none" | "teacher" | "student"
    worker_thread,    \* integrated: self.teacher_thread / self.student_thread
    worker_running,   \* integrated: self.teacher_running / self.student_running
    worker_bot,       \* integrated: self.teacher_bot / self.student_bot is set
    pc_mon,           \* position of the supervisor loop thread
    mon_alive,        \* supervisor loop locals teacher_alive, student_alive
    pc_ping,          \* position of the self-ping loop thread
    rb_pc,            \* per caller: position inside start()/restart_bots()
    rb_reg,           \* per caller: restart_count value loaded by "+= 1"
    rb_ok,            \* per caller: locals teacher_ok, student_ok
    ka_pc,            \* per /keep-alive thread: position in the handler
    ka_reg,           \* per /keep-alive thread: ping_count loaded by "+= 1"
    resp,             \* the most recent HTTP response sent
    faults,           \* environment faults so far
    hist,             \* history: request counters and restart-cycle bookkeeping
    flask_thread,     \* the HTTP server thread: "none" | "serving" | "failed"
    ext               \* the external pinger process (a separate program)

vars == <<variant, now, pc_main, running, ping_count, last_ping, restart_count,
          teacher_process, student_process, procs, worker_thread,
          worker_running, worker_bot, pc_mon, mon_alive, pc_ping, rb_pc,
          rb_reg, rb_ok, ka_pc, ka_reg, resp, faults, hist, flask_thread, ext>>

\* groups used in UNCHANGED clauses
pingVars == <<ping_count, last_ping, ka_pc, ka_reg>>
procVars == <<teacher_process, student_process, procs>>
integVars == <<worker_thread, worker_running, worker_bot>>
rbVars == <<rb_pc, rb_reg, rb_ok>>
monVars == <<pc_mon, mon_alive>>

\* The state an HTTP handler could touch: everything the manager object and
\* the operating system hold (not the threads' positions, not the response).
objectVars == <<running, ping_count, last_ping, restart_count, teacher_process,
                student_process, procs, worker_thread, worker_running,
                worker_bot>>

Subprocess == variant \in {"keepalive", "cloud"}

\* The process is up as long as main has not left through sys.exit.
ProcessUp == pc_main # "exited"

\* start_flask_server / start_webserver is the first statement of start():
\* from then on the daemon server thread answers requests, if app.run could
\* bind the port, for as long as the process lives.
ServerUp == flask_thread = "serving" /\ pc_main # "exited"


\* ------------------------------------------------------- Python values
\* `x and y` evaluates to x when x is falsy (None stays None), else to y.
PyAnd(x, y) == IF x \in {"None", "False"} THEN x ELSE y

PyBool(b) == IF b THEN "True" ELSE "False"

Truthy(x) == x = "True"

\* Popen.poll() is None: the process has not exited.
PollIsNone(h) == PyBool(procs[h] # "none")

ProcessAliveHandleOnly(h) == IF h = None THEN "None" ELSE "True"

\* self.X_process and self.X_process.poll() is None
ProcessAlive(h) == IF h = None THEN "None" ELSE PyAnd("True", PollIsNone(h))

\* check_bots_health / check_bot_health: (teacher_alive, student_alive)
check_bots_health == [teacher |-> ProcessAlive(teacher_process), student |-> ProcessAlive(student_process)]

\* threading.Thread.is_alive() of the integrated worker threads
ThreadAlive(w) == IF worker_thread[w] = "none" THEN "None" ELSE PyBool(worker_thread[w] \in {"starting", "polling"})

\* ------------------------------------------------------- HTTP handlers
\* The server hands a request to a free request thread; the threads are
\* interchangeable, so the first free one in a fixed order takes it.
ThreadOrder == <<"k1", "k2", "r1", "r2">>

IndexOf(t) == CHOOSE i \in 1..Len(ThreadOrder) : ThreadOrder[i] = t

FirstIdle(threads, pcs) ==
    IF \A t \in threads : pcs[t] # "idle" THEN "busy"
    ELSE CHOOSE t \in threads : pcs[t] = "idle" /\ \A u \in threads : pcs[u] = "idle" => IndexOf(t) <= IndexOf(u)

StatusOfEither(t, s) == IF Truthy(t) \/ Truthy(s) THEN "healthy" ELSE "partial"

StatusOf(t, s) == IF Truthy(PyAnd(t, s)) THEN "healthy" ELSE "partial"

HealthKeepAlive ==
    LET a == check_bots_health
    IN [status |-> StatusOf(a.teacher, a.student),
        uptime_seconds |-> now, uptime_formatted |-> now,
        teacher_bot_running |-> a.teacher, student_bot_running |-> a.student,
        restart_count |-> restart_count, last_ping |-> last_ping,
        ping_count |-> ping_count, timestamp |-> now]

HealthIntegrated ==
    [status |-> StatusOf(PyBool(worker_running["teacher"]), PyBool(worker_running["student"])),
     uptime_seconds |-> now, uptime_formatted |-> now,
     teacher_bot_running |-> PyBool(worker_running["teacher"]),
     student_bot_running |-> PyBool(worker_running["student"]),
     last_ping |-> last_ping, ping_count |-> ping_count, timestamp |-> now]

HealthWebserver ==
    [status |-> "healthy", uptime_seconds |-> now, uptime_formatted |-> now,
     last_keepalive |-> last_ping, keepalive_count |-> ping_count,
     timestamp |-> now]

\* The JSON body a /health request handled in the current state returns.
HealthBody ==
    CASE variant = "keepalive" -> HealthKeepAlive
      [] variant = "integrated" -> HealthIntegrated
      [] OTHER -> HealthWebserver

KeepAliveBodyPreIncrement ==
    [status |-> "alive", ping_count |-> ping_count - 1, timestamp |-> last_ping]

KeepAliveBody ==
    CASE variant = "keepalive" ->
            [status |-> "alive", ping_count |-> ping_count,
             timestamp |-> last_ping, uptime |-> now]
      [] variant = "integrated" ->
            [status |-> "alive", ping_count |-> ping_count,
             timestamp |-> last_ping, uptime |-> now,
             teacher_running |-> PyBool(worker_running["teacher"]),
             student_running |-> PyBool(worker_running["student"])]
      [] OTHER ->
            [status |-> "alive", ping_count |-> ping_count,
             timestamp |-> last_ping]

Reply(route, body) == [route |-> route, code |-> 200, body |-> body]

PingBodyAlive == [text |-> "alive"]

PingBody == [text |-> "pong"]

home ==
    /\ ServerUp
    /\ resp' = Reply("/", [text |-> "greeting"])
    /\ UNCHANGED <<variant, flask_thread, ext, now, pc_main, objectVars, monVars, pc_ping, rbVars, ka_pc, ka_reg, faults, hist>>

health ==
    /\ ServerUp
    /\ resp' = Reply("/health", HealthBody)
    /\ UNCHANGED <<variant, flask_thread, ext, now, pc_main, objectVars, monVars, pc_ping, rbVars, ka_pc, ka_reg, faults, hist>>

ping ==
    /\ ServerUp
    /\ resp' = Reply("/ping", PingBody)
    /\ UNCHANGED <<variant, flask_thread, ext, now, pc_main, objectVars, monVars, pc_ping, rbVars, ka_pc, ka_reg, faults, hist>>

\* history of an accepted /keep-alive request: one more request, and whether
\* it overlaps a request still in flight
KaHist(h) ==
    [h EXCEPT !.ka_started = @ + 1,
              !.ka_overlap = @ \/ (\E j \in KaThreads : ka_pc[j] # "idle")]

\* /keep-alive, first half: self.last_ping = datetime.now(), and the load of
\* self.ping_count that begins "self.ping_count += 1".
KaEnter(k) ==
    /\ ServerUp
    /\ k = FirstIdle(KaThreads, ka_pc)
    /\ hist.ka_started < MaxPings
    /\ last_ping' = now
    /\ ka_reg' = [ka_reg EXCEPT ![k] = ping_count]
    /\ ka_pc' = [ka_pc EXCEPT ![k] = "loaded"]

KaIncrementLost(k) == ka_reg[k]

\* the store that ends "self.ping_count += 1"
KaIncrement(k) == ka_reg[k] + 1

KaStore(k) ==
    /\ ProcessUp
    /\ ka_pc[k] = "loaded"
    /\ ping_count' = KaIncrement(k)
    /\ ka_pc' = [ka_pc EXCEPT ![k] = "stored"]
    /\ UNCHANGED <<variant, flask_thread, ext, now, pc_main, running, last_ping, restart_count, procVars, integVars, monVars, pc_ping, rbVars, ka_reg, resp, faults, hist>>

\* return jsonify({...}): reads self.ping_count and self.last_ping again
KaRespond(k) ==
    /\ ProcessUp
    /\ ka_pc[k] = "stored"
    /\ resp' = Reply("/keep-alive", KeepAliveBody)
    /\ ka_pc' = [ka_pc EXCEPT ![k] = "idle"]
    /\ ka_reg' = [ka_reg EXCEPT ![k] = 0]
    /\ hist' = [hist EXCEPT !.ka_done = @ + 1]
    /\ UNCHANGED <<variant, flask_thread, ext, now, pc_main, running, ping_count, last_ping, restart_count, procVars, integVars, monVars, pc_ping, rbVars, faults>>

\* a /keep-alive request of an external caller arrives
keep_alive(k) ==
    /\ KaEnter(k)
    /\ hist' = KaHist(hist)
    /\ UNCHANGED <<variant, flask_thread, ext, now, pc_main, running, ping_count, restart_count, procVars, integVars, monVars, pc_ping, rbVars, resp, faults>>

\* ------------------------------------------------------- self-ping loop
\* requests.get(".../keep-alive"): the request is served by a free request
\* thread, or it fails (server gone, timeout); either way the loop sleeps.
SelfPingRequest ==
    /\ ProcessUp
    /\ pc_ping = "ready"
    /\ pc_ping' = "sleep"
    /\ \E k \in KaThreads : KaEnter(k)
    /\ hist' = [KaHist(hist) EXCEPT !.sp = "ok"]
    /\ UNCHANGED <<variant, flask_thread, ext, now, pc_main, running, ping_count, restart_count, procVars, integVars, monVars, rbVars, resp, faults>>

SelfPingFailsRetriesNow ==
    /\ ProcessUp
    /\ pc_ping = "ready"
    /\ pc_ping' = "ready"
    /\ hist' = [hist EXCEPT !.sp = "failed"]
    /\ UNCHANGED <<variant, flask_thread, ext, now, pc_main, objectVars, monVars, rbVars, ka_pc, ka_reg, resp, faults>>

\* the request raises (connection error, timeout) or is answered non-200:
\* logged, and the loop goes on to its sleep
SelfPingFails ==
    /\ ProcessUp
    /\ pc_ping = "ready"
    /\ pc_ping' = "sleep"
    /\ hist' = [hist EXCEPT !.sp = "failed"]
    /\ UNCHANGED <<variant, flask_thread, ext, now, pc_main, objectVars, monVars, rbVars, ka_pc, ka_reg, resp, faults>>

\* time.sleep(10) before the loop, time.sleep(300) inside it, then the loop
\* test: "while self.running" (webserver.self_ping_loop: "while True").
SelfPingWake ==
    /\ ProcessUp
    /\ pc_ping \in {"wait", "sleep"}
    /\ pc_ping' = IF variant = "cloud" \/ running THEN "ready" ELSE "done"
    /\ hist' = [hist EXCEPT !.sp = IF @ = "failed" THEN "due_after_fail" ELSE "due"]
    /\ UNCHANGED <<variant, flask_thread, ext, now, pc_main, objectVars, monVars, rbVars, ka_pc, ka_reg, resp, faults>>

\* datetime.now() advances
Tick ==
    /\ ProcessUp
    /\ now < MaxTime
    /\ now' = now + 1
    /\ UNCHANGED <<variant, flask_thread, ext, pc_main, objectVars, monVars, pc_ping, rbVars, ka_pc, ka_reg, resp, faults, hist>>



\* -------------------------------------------------- worker processes (OS)
Handle(w) == IF w = "teacher" THEN teacher_process ELSE student_process

\* process slots that are neither running nor still held by the manager
FreePids == {p \in Pids : procs[p] = "none" /\ p # teacher_process /\ p # student_process}

NewPid == CHOOSE p \in FreePids : \A q \in FreePids : p <= q

\* positions inside start() / restart_bots()
SpawnPc(w) == IF w = "teacher" THEN "spawn_teacher" ELSE "spawn_student"

GracePc(w) == IF w = "teacher" THEN "grace_teacher" ELSE "grace_student"

AfterLaunch(w) == IF w = "teacher" THEN "spawn_student" ELSE "ret"

\* bookkeeping of death-and-relaunch cycles: a cycle opens when a worker the
\* manager holds dies, and records restart_count at that moment
CycleOpen(h) ==
    IF h.cyc = "open" THEN h
    ELSE [h EXCEPT !.cyc = "open", !.cyc_base = restart_count, !.cyc_attempts = 0,
                   !.cyc_clean = \A r \in RbThreads : rb_pc[r] = "idle"]

\* A worker process exits on its own (crash, or killed from outside).
WorkerExit(p) ==
    /\ ProcessUp
    /\ Subprocess
    /\ procs[p] # "none"
    /\ faults < MaxFaults
    /\ faults' = faults + 1
    /\ procs' = [procs EXCEPT ![p] = "none"]
    /\ hist' = IF p \in {teacher_process, student_process} THEN CycleOpen(hist) ELSE hist
    /\ UNCHANGED <<variant, flask_thread, ext, now, pc_main, running, pingVars, restart_count, teacher_process, student_process, integVars, monVars, pc_ping, rbVars, resp>>

\* ------------------------------------------ start() / restart_bots() steps
\* Caller c is the main thread (start), the supervisor loop, or a
\* /restart-bots request thread; all run the same methods on the same object.
Active(c) ==
    /\ ProcessUp
    /\ Subprocess
    /\ c = "main" => pc_main = "starting"

\* self.restart_count += 1, the load
RbLoad(c) ==
    /\ Active(c)
    /\ rb_pc[c] = "load"
    /\ rb_reg' = [rb_reg EXCEPT ![c] = restart_count]
    /\ rb_pc' = [rb_pc EXCEPT ![c] = "store"]
    /\ UNCHANGED <<variant, flask_thread, ext, now, pc_main, objectVars, monVars, pc_ping, rb_ok, ka_pc, ka_reg, resp, faults, hist>>

RestartIncrementTwice(c) == rb_reg[c] + 2

RestartIncrement(c) == rb_reg[c] + 1

\* self.restart_count += 1, the store
RbStore(c) ==
    /\ Active(c)
    /\ rb_pc[c] = "store"
    /\ restart_count' = RestartIncrement(c)
    /\ rb_reg' = [rb_reg EXCEPT ![c] = 0]
    /\ rb_pc' = [rb_pc EXCEPT ![c] = "kill"]
    /\ UNCHANGED <<variant, flask_thread, ext, now, pc_main, running, pingVars, procVars, integVars, monVars, pc_ping, rb_ok, resp, faults, hist>>

\* the processes left by pkill -f TelegramBot.py ; pkill -f StudentBot.py
Pkill(ps) == [p \in Pids |-> "none"]

\* kill_existing_bots: ends every worker process of the machine
kill_existing_bots(c) ==
    /\ Active(c)
    /\ rb_pc[c] = "kill"
    /\ rb_pc' = [rb_pc EXCEPT ![c] = "spawn_teacher"]
    /\ procs' = Pkill(procs)
    /\ UNCHANGED <<variant, flask_thread, ext, now, pc_main, running, pingVars, restart_count, teacher_process, student_process, integVars, monVars, pc_ping, rb_reg, rb_ok, resp, faults, hist>>

\* kill_existing_bots, except branch: subprocess.run raised (no pkill on the
\* machine); logged, nothing is killed
KillError(c) ==
    /\ Active(c)
    /\ rb_pc[c] = "kill"
    /\ faults < MaxFaults
    /\ faults' = faults + 1
    /\ rb_pc' = [rb_pc EXCEPT ![c] = "spawn_teacher"]
    /\ UNCHANGED <<variant, flask_thread, ext, now, pc_main, objectVars, monVars, pc_ping, rb_reg, rb_ok, ka_pc, ka_reg, resp, hist>>

\* start_teacher_bot / start_student_bot up to time.sleep: subprocess.Popen
\* stores the new process in the handle
Spawn(c, w) ==
    /\ Active(c)
    /\ rb_pc[c] = SpawnPc(w)
    /\ FreePids # {}
    /\ procs' = [procs EXCEPT ![NewPid] = w]
    /\ teacher_process' = IF w = "teacher" THEN NewPid ELSE teacher_process
    /\ student_process' = IF w = "student" THEN NewPid ELSE student_process
    /\ rb_pc' = [rb_pc EXCEPT ![c] = GracePc(w)]
    /\ UNCHANGED <<variant, flask_thread, ext, now, pc_main, running, pingVars, restart_count, integVars, monVars, pc_ping, rb_reg, rb_ok, resp, faults, hist>>

\* start_X_bot, except branch: Popen raised (no process slot left, or an OS
\* error); the handle keeps its old value and the method returns False
SpawnError(c, w) ==
    /\ Active(c)
    /\ rb_pc[c] = SpawnPc(w)
    /\ FreePids = {} \/ faults < MaxFaults
    /\ faults' = IF FreePids = {} THEN faults ELSE faults + 1
    /\ rb_ok' = [rb_ok EXCEPT ![c][w] = FALSE]
    /\ rb_pc' = [rb_pc EXCEPT ![c] = AfterLaunch(w)]
    /\ UNCHANGED <<variant, flask_thread, ext, now, pc_main, objectVars, monVars, pc_ping, rb_reg, ka_pc, ka_reg, resp, hist>>

LaunchResultAlwaysTrue(w) == TRUE

\* the value start_X_bot returns after the grace window:
\* self.X_process.poll() is None, read from the handle as it is now
LaunchResult(w) == Truthy(PollIsNone(Handle(w)))

\* start_teacher_bot / start_student_bot after time.sleep (the grace window)
Grace(c, w) ==
    /\ Active(c)
    /\ rb_pc[c] = GracePc(w)
    /\ rb_ok' = [rb_ok EXCEPT ![c][w] = LaunchResult(w)]
    /\ rb_pc' = [rb_pc EXCEPT ![c] = AfterLaunch(w)]
    /\ UNCHANGED <<variant, flask_thread, ext, now, pc_main, objectVars, monVars, pc_ping, rb_reg, ka_pc, ka_reg, resp, faults, hist>>

BothOk(c) == rb_ok[c]["teacher"] /\ rb_ok[c]["student"]

NoOk == [w \in Workers |-> FALSE]


\* -------------------------------------------- integrated worker threads
\* start_teacher_bot_thread / start_student_bot_thread: a new daemon thread
\* is stored in self.X_thread and started (then time.sleep(3))
StartThread(threads, w) == [threads EXCEPT ![w] = "starting"]

start_bot_thread(w) ==
    /\ variant = "integrated"
    /\ pc_main = "starting"
    /\ rb_pc["main"] = SpawnPc(w)
    /\ worker_thread' = StartThread(worker_thread, w)
    /\ rb_pc' = [rb_pc EXCEPT !["main"] = AfterLaunch(w)]
    /\ UNCHANGED <<variant, flask_thread, ext, now, pc_main, running, pingVars, restart_count, procVars, worker_running, worker_bot, monVars, pc_ping, rb_reg, rb_ok, resp, faults, hist>>

\* run_teacher / run_student: the import succeeded; self.X_bot = bot,
\* self.X_running = True, then polling() runs
WorkerStarted(w) ==
    /\ ProcessUp
    /\ worker_thread[w] = "starting"
    /\ worker_bot' = [worker_bot EXCEPT ![w] = TRUE]
    /\ worker_running' = [worker_running EXCEPT ![w] = TRUE]
    /\ worker_thread' = [worker_thread EXCEPT ![w] = "polling"]
    /\ UNCHANGED <<variant, flask_thread, ext, now, pc_main, running, pingVars, restart_count, procVars, monVars, pc_ping, rbVars, resp, faults, hist>>

\* run_teacher / run_student, except branch: the import or polling() raised;
\* self.X_running = False and the thread ends
WorkerRaises(w) ==
    /\ ProcessUp
    /\ worker_thread[w] \in {"starting", "polling"}
    /\ faults < MaxFaults
    /\ faults' = faults + 1
    /\ worker_running' = [worker_running EXCEPT ![w] = FALSE]
    /\ worker_thread' = [worker_thread EXCEPT ![w] = "dead"]
    /\ UNCHANGED <<variant, flask_thread, ext, now, pc_main, running, pingVars, restart_count, procVars, worker_bot, monVars, pc_ping, rbVars, resp, hist>>

\* polling() returns without raising: the thread ends, the flag is not touched
WorkerReturns(w) ==
    /\ ProcessUp
    /\ worker_thread[w] = "polling"
    /\ faults < MaxFaults
    /\ faults' = faults + 1
    /\ worker_thread' = [worker_thread EXCEPT ![w] = "dead"]
    /\ UNCHANGED <<variant, flask_thread, ext, now, pc_main, running, pingVars, restart_count, procVars, worker_running, worker_bot, monVars, pc_ping, rbVars, resp, hist>>

\* ------------------------------------------------------------ main thread
\* start(): start_flask_server() (start_webserver() in the cloud variant,
\* which also starts webserver.self_ping_loop); what follows is
\* kill_existing_bots() (subprocess variants) or the first worker thread.
StartServer ==
    /\ pc_main = "init"
    /\ pc_main' = "starting"
    /\ flask_thread' = "serving"
    /\ rb_pc' = [rb_pc EXCEPT !["main"] = IF Subprocess THEN "kill" ELSE "spawn_teacher"]
    /\ pc_ping' = IF variant = "cloud" THEN "wait" ELSE pc_ping
    /\ UNCHANGED <<variant, ext, now, objectVars, monVars, rb_reg, rb_ok, ka_pc, ka_reg, resp, faults, hist>>

\* start(), when app.run cannot bind the port: the exception is raised inside
\* the daemon server thread (caught and logged by run_flask; uncaught in
\* webserver.run), start_flask_server / start_webserver return as usual and
\* start() goes on
StartServerFails ==
    /\ pc_main = "init"
    /\ pc_main' = "starting"
    /\ flask_thread' = "failed"
    /\ rb_pc' = [rb_pc EXCEPT !["main"] = IF Subprocess THEN "kill" ELSE "spawn_teacher"]
    /\ pc_ping' = IF variant = "cloud" THEN "wait" ELSE pc_ping
    /\ UNCHANGED <<variant, ext, now, objectVars, monVars, rb_reg, rb_ok, ka_pc, ka_reg, resp, faults, hist>>

\* does start() go on to start the loops and return True?
StartSucceeds == IF Subprocess THEN BothOk("main") ELSE TRUE

\* start() after both launches. Success: the self-ping thread and the
\* supervisor thread are started, start() returns True and main sleeps
\* forever. Failure: start() returns False and main calls sys.exit(1).
StartReturn ==
    /\ pc_main = "starting"
    /\ rb_pc["main"] = "ret"
    /\ rb_pc' = [rb_pc EXCEPT !["main"] = "idle"]
    /\ rb_ok' = [rb_ok EXCEPT !["main"] = NoOk]
    /\ IF StartSucceeds
       THEN /\ pc_main' = "serving"
            /\ pc_mon' = "test"
            /\ pc_ping' = IF variant = "cloud" THEN pc_ping ELSE "wait"
       ELSE /\ pc_main' = "exited"
            /\ UNCHANGED <<pc_mon, pc_ping>>
    /\ UNCHANGED <<variant, flask_thread, ext, now, objectVars, mon_alive, rb_reg, ka_pc, ka_reg, resp, faults, hist>>

\* BotKeepAlive24x7.start() called by a caller that ignores the result and
\* keeps the process up (test_local_24x7.run_system: keeper.start(), then
\* "while True: time.sleep(1)"): after a failed launch start() has returned
\* False before starting either loop thread, and the process goes on.
StartFailsProcessStays ==
    /\ variant = "keepalive"
    /\ pc_main = "starting"
    /\ rb_pc["main"] = "ret"
    /\ ~StartSucceeds
    /\ pc_main' = "failed"
    /\ rb_pc' = [rb_pc EXCEPT !["main"] = "idle"]
    /\ rb_ok' = [rb_ok EXCEPT !["main"] = NoOk]
    /\ UNCHANGED <<variant, flask_thread, ext, now, objectVars, monVars, pc_ping, rb_reg, ka_pc, ka_reg, resp, faults, hist>>

\* ------------------------------------------------- supervisor loop thread
\* "while self.running:"
MonTest ==
    /\ ProcessUp
    /\ pc_mon = "test"
    /\ pc_mon' = IF running THEN "check" ELSE "done"
    /\ UNCHANGED <<variant, flask_thread, ext, now, pc_main, objectVars, mon_alive, pc_ping, rbVars, ka_pc, ka_reg, resp, faults, hist>>

SweepChecksTeacherOnly == ~Truthy(check_bots_health.teacher)

\* "if not teacher_alive or not student_alive"
SweepFindsDeath == ~Truthy(check_bots_health.teacher) \/ ~Truthy(check_bots_health.student)

\* monitor_bots_loop / monitor_bots: the health sweep. A dead worker makes
\* the loop call restart_bots() in the same iteration.
MonCheck ==
    /\ ProcessUp
    /\ Subprocess
    /\ pc_mon = "check"
    /\ IF SweepFindsDeath
       THEN /\ pc_mon' = "restart"
            /\ rb_pc' = [rb_pc EXCEPT !["monitor"] = "load"]
            /\ hist' = IF hist.cyc = "open" THEN [hist EXCEPT !.cyc_attempts = @ + 1] ELSE hist
       ELSE /\ pc_mon' = "sleep"
            /\ UNCHANGED <<rb_pc, hist>>
    /\ UNCHANGED <<variant, flask_thread, ext, now, pc_main, objectVars, mon_alive, pc_ping, rb_reg, rb_ok, ka_pc, ka_reg, resp, faults>>

RetryAtOnce(ok) == IF ok THEN "sleep" ELSE "test"

GiveUp(ok) == IF ok THEN "sleep" ELSE "done"

\* "if not self.restart_bots(): time.sleep(30)", then time.sleep(120)
AfterRestart(ok) == IF ok THEN "sleep" ELSE "cooldown"

\* restart_bots() returned to the loop: False -> time.sleep(30) first
MonRestartReturn ==
    /\ ProcessUp
    /\ Subprocess
    /\ pc_mon = "restart"
    /\ rb_pc["monitor"] = "ret"
    /\ rb_pc' = [rb_pc EXCEPT !["monitor"] = "idle"]
    /\ rb_ok' = [rb_ok EXCEPT !["monitor"] = NoOk]
    /\ pc_mon' = AfterRestart(BothOk("monitor"))
    /\ hist' = [hist EXCEPT !.cyc = IF @ = "open" /\ BothOk("monitor") /\ ~SweepFindsDeath
                                    THEN "closed" ELSE @,
                            !.cooldown = IF BothOk("monitor") THEN "none" ELSE "failed"]
    /\ UNCHANGED <<variant, flask_thread, ext, now, pc_main, objectVars, mon_alive, pc_ping, rb_reg, ka_pc, ka_reg, resp, faults>>

\* integrated monitor_bots_loop: teacher_alive / student_alive are read
MonCheckThreads ==
    /\ ProcessUp
    /\ variant = "integrated"
    /\ pc_mon = "check"
    /\ mon_alive' = [w \in Workers |-> ThreadAlive(w)]
    /\ pc_mon' = "handle_teacher"
    /\ UNCHANGED <<variant, flask_thread, ext, now, pc_main, objectVars, pc_ping, rbVars, ka_pc, ka_reg, resp, faults, hist>>

\* "if not X_alive and self.X_running"
ThreadDeathSeen(w) == ~Truthy(mon_alive[w]) /\ worker_running[w]

\* integrated monitor_bots_loop: a thread found dead whose flag is still set
\* gets the flag cleared and is restarted (restart_X_bot)
MonHandle(w) ==
    /\ ProcessUp
    /\ variant = "integrated"
    /\ pc_mon = (IF w = "teacher" THEN "handle_teacher" ELSE "handle_student")
    /\ pc_mon' = (IF w = "teacher" THEN "handle_student" ELSE "sleep")
    /\ IF ThreadDeathSeen(w)
       THEN /\ worker_running' = [worker_running EXCEPT ![w] = FALSE]
            /\ worker_thread' = StartThread(worker_thread, w)
       ELSE UNCHANGED <<worker_running, worker_thread>>
    /\ UNCHANGED <<variant, flask_thread, ext, now, pc_main, running, pingVars, restart_count, procVars, worker_bot, mon_alive, pc_ping, rbVars, resp, faults, hist>>

MonErrorRestarts ==
    /\ ProcessUp
    /\ pc_mon = "check"
    /\ faults < MaxFaults
    /\ faults' = faults + 1
    /\ pc_mon' = "restart"
    /\ rb_pc' = [rb_pc EXCEPT !["monitor"] = "load"]
    /\ UNCHANGED <<variant, flask_thread, ext, now, pc_main, objectVars, mon_alive, pc_ping, rb_reg, rb_ok, ka_pc, ka_reg, resp, hist>>

\* an exception inside the try block of the loop: logged, time.sleep(60)
MonError ==
    /\ ProcessUp
    /\ pc_mon = "check"
    /\ faults < MaxFaults
    /\ faults' = faults + 1
    /\ pc_mon' = "errsleep"
    /\ UNCHANGED <<variant, flask_thread, ext, now, pc_main, objectVars, mon_alive, pc_ping, rbVars, ka_pc, ka_reg, resp, hist>>

\* the sleeps of the supervisor loop, in seconds
SweepInterval == 120      \* time.sleep(120) at the end of an iteration

Cooldown == 30            \* time.sleep(30) after a failed restart_bots

ErrorDelay == 60          \* time.sleep(60) in the except branch

MonSleeps == {"sleep", "cooldown", "errsleep"}

\* seconds from the loop entering sleep position pc until its next sweep
WaitToNextSweep(pc) ==
    CASE pc = "sleep" -> SweepInterval
      [] pc = "cooldown" -> Cooldown + SweepInterval
      [] pc = "errsleep" -> ErrorDelay
      [] OTHER -> 0

\* time.sleep(30) -> time.sleep(120) -> loop test; time.sleep(60) -> loop test
\* (each of the sleeps lasts at least the cooldown of 30 s)
MonWake ==
    /\ ProcessUp
    /\ pc_mon \in {"cooldown", "sleep", "errsleep"}
    /\ pc_mon' = IF pc_mon = "cooldown" THEN "sleep" ELSE "test"
    /\ hist' = [hist EXCEPT !.cooldown = IF @ = "failed" THEN "elapsed" ELSE @]
    /\ UNCHANGED <<variant, flask_thread, ext, now, pc_main, objectVars, mon_alive, pc_ping, rbVars, ka_pc, ka_reg, resp, faults>>

\* ------------------------------------------------- /restart-bots (keepalive)
restart_bots_endpoint(r) ==
    /\ ServerUp
    /\ variant = "keepalive"
    /\ r = FirstIdle(RbThreads, rb_pc)
    /\ hist.rb_reqs < MaxRestartReqs
    /\ rb_pc' = [rb_pc EXCEPT ![r] = "load"]
    /\ hist' = [hist EXCEPT !.rb_reqs = @ + 1,
                            !.cyc = IF @ = "closed" THEN "none" ELSE @,
                            !.cyc_clean = FALSE]
    /\ UNCHANGED <<variant, flask_thread, ext, now, pc_main, objectVars, monVars, pc_ping, rb_reg, rb_ok, ka_pc, ka_reg, resp, faults>>

RestartBody(r) ==
    [status |-> IF BothOk(r) THEN "success" ELSE "failed",
     restart_count |-> restart_count]

RestartRespond(r) ==
    /\ ProcessUp
    /\ rb_pc[r] = "ret"
    /\ resp' = Reply("/restart-bots", RestartBody(r))
    /\ rb_pc' = [rb_pc EXCEPT ![r] = "idle"]
    /\ rb_ok' = [rb_ok EXCEPT ![r] = NoOk]
    /\ UNCHANGED <<variant, flask_thread, ext, now, pc_main, objectVars, monVars, pc_ping, rb_reg, ka_pc, ka_reg, faults, hist>>

\* ------------------------------------------------------------- shutdown
\* SIGINT / SIGTERM: signal_handler runs stop() in the main thread, wherever
\* that thread is. stop() first sets the running flag(s) to False ...
StopBegin ==
    /\ pc_main \in {"starting", "serving"}
    /\ pc_main' = "stopping"
    /\ running' = FALSE
    /\ worker_running' = IF variant = "integrated" THEN [w \in Workers |-> FALSE] ELSE worker_running
    /\ rb_pc' = [rb_pc EXCEPT !["main"] = "idle"]
    /\ rb_ok' = [rb_ok EXCEPT !["main"] = NoOk]
    /\ UNCHANGED <<variant, flask_thread, ext, now, pingVars, restart_count, procVars, worker_thread, worker_bot, monVars, pc_ping, rb_reg, resp, faults, hist>>

TerminatedTeacherOnly(ps) == [p \in Pids |-> IF p = teacher_process THEN "none" ELSE ps[p]]

\* X_process.terminate() on the handles the manager holds
Terminated(ps) == [p \in Pids |-> IF p \in {teacher_process, student_process} THEN "none" ELSE ps[p]]

\* X_bot.stop_polling() makes polling() of a set bot return
PollingStopped(threads) == [w \in Workers |-> IF worker_bot[w] /\ threads[w] = "polling" THEN "dead" ELSE threads[w]]

\* ... then terminates the workers it holds a handle to ...
StopTerminate ==
    /\ pc_main = "stopping"
    /\ pc_main' = "stopped"
    /\ procs' = IF Subprocess THEN Terminated(procs) ELSE procs
    /\ worker_thread' = IF Subprocess THEN worker_thread ELSE PollingStopped(worker_thread)
    /\ hist' = IF procs' # procs THEN CycleOpen(hist) ELSE hist
    /\ UNCHANGED <<variant, flask_thread, ext, now, running, pingVars, restart_count, teacher_process, student_process, worker_running, worker_bot, monVars, pc_ping, rbVars, resp, faults>>

\* ... and signal_handler ends the process with sys.exit(0).
Exit ==
    /\ pc_main = "stopped"
    /\ pc_main' = "exited"
    /\ UNCHANGED <<variant, flask_thread, ext, now, objectVars, monVars, pc_ping, rbVars, ka_pc, ka_reg, resp, faults, hist>>

\* ------------------------------------------------------ external pinger
\* external_keepalive_monitor.py / simple_external_pinger.py: not started
ExtInit ==
    [kind |-> "off", mode |-> "off", pc |-> "off", ping_count |-> 0,
     success_count |-> 0, error_count |-> 0, health_ok |-> "None",
     ping_ok |-> "None", code |-> "none"]

ExtKinds == {"monitor", "pinger"}     \* ExternalKeepAliveMonitor / simple_external_pinger

ExtModes == {"once", "continuous"}

\* what requests.get(...) and response.json() can come to
ExtOutcomes == {"ok", "unparseable", "non200", "timeout", "connerr"}

ExtFailures == ExtOutcomes \ {"ok"}

\* the program is started from the command line: "once" (interval 0 for
\* simple_external_pinger) runs check_health then the ping, the continuous
\* mode enters its "while True" loop with the ping
ExtStart(kind, mode) ==
    /\ ext.pc = "off"
    /\ ext' = [ExtInit EXCEPT !.kind = kind, !.mode = mode,
                              !.pc = IF mode = "once" THEN "health" ELSE "ping"]
    /\ UNCHANGED <<variant, flask_thread, now, pc_main, objectVars, monVars, pc_ping, rbVars, ka_pc, ka_reg, resp, faults, hist>>

\* history: the outcomes of the two requests of a single check
ExtSeen(h, call, o) == IF ext.mode = "once" THEN [h EXCEPT !.ext_o[call] = o] ELSE h

\* data.get(field, False) on the parsed /health body
GetField(body, f) == IF f \in DOMAIN body THEN body[f] ELSE "False"

\* the value check_health returns. ExternalKeepAliveMonitor: True on a 200
\* whose body parses. simple_external_pinger: on a 200 whose body parses,
\* "teacher_running and student_running" read from the body.
ExtHealthResult(kind, o) ==
    IF o # "ok" THEN "False"
    ELSE IF kind = "monitor" THEN "True"
    ELSE PyAnd(GetField(HealthBody, "teacher_bot_running"), GetField(HealthBody, "student_bot_running"))

\* check_health: GET /health with outcome o; every exception is caught
ExtCheckHealth(o) ==
    /\ ext.pc = "health"
    /\ o = "ok" => ServerUp
    /\ ext' = [ext EXCEPT !.health_ok = ExtHealthResult(ext.kind, o),
                          !.pc = IF ext.mode = "once" THEN "ping" ELSE "sleep"]
    /\ hist' = ExtSeen(hist, "health", o)
    /\ UNCHANGED <<variant, flask_thread, now, pc_main, objectVars, monVars, pc_ping, rbVars, ka_pc, ka_reg, resp, faults>>

\* "if self.ping_count % 6 == 0: check_health()" before the sleep
ExtAfterPing(n) == IF n % 6 = 0 THEN "health" ELSE "sleep"

\* ping_service / ping_bot with outcome o: the counters, the returned value
\* and where the program goes next.
\*   ExternalKeepAliveMonitor.ping_service: ping_count += 1 first;
\*     success_count += 1 on status 200, before response.json();
\*     error_count += 1 in every except branch (json() raising included).
\*   simple_external_pinger, continuous: ping_count += 1 in the loop,
\*     success_count += 1 if ping_bot returned True; single test: no counters.
ExtPinged(e, o) ==
    LET counted == e.kind = "monitor" \/ e.mode = "continuous"
        n == IF counted THEN e.ping_count + 1 ELSE e.ping_count
        succ == IF e.kind = "monitor" THEN o \in {"ok", "unparseable"} ELSE (o = "ok" /\ counted)
        err == e.kind = "monitor" /\ o \in {"unparseable", "timeout", "connerr"}
    IN [e EXCEPT !.ping_count = n,
                 !.success_count = IF succ THEN @ + 1 ELSE @,
                 !.error_count = IF err THEN @ + 1 ELSE @,
                 !.ping_ok = PyBool(o = "ok"),
                 !.pc = IF e.mode = "once" THEN "decide" ELSE ExtAfterPing(n)]

ExtMayPing == ext.pc = "ping" /\ ext.ping_count < MaxExtPings

\* GET /keep-alive answered 200 with a JSON body: the server has taken the
\* request (first half of its handler)
ExtPingAnswered ==
    /\ ExtMayPing
    /\ \E k \in KaThreads : KaEnter(k)
    /\ hist' = ExtSeen(KaHist(hist), "ping", "ok")
    /\ ext' = ExtPinged(ext, "ok")
    /\ UNCHANGED <<variant, flask_thread, now, pc_main, running, ping_count, restart_count, procVars, integVars, monVars, pc_ping, rbVars, resp, faults>>

ExtPingFailsEndsLoop(o) ==
    /\ ExtMayPing
    /\ o \in ExtFailures
    /\ ext' = [ExtPinged(ext, o) EXCEPT !.pc = "exited", !.code = "1"]
    /\ hist' = ExtSeen(hist, "ping", o)
    /\ UNCHANGED <<variant, flask_thread, now, pc_main, objectVars, monVars, pc_ping, rbVars, ka_pc, ka_reg, resp, faults>>

\* GET /keep-alive timed out, could not connect, was answered non-200, or
\* its body did not parse: logged, False is returned
ExtPingFails(o) ==
    /\ ExtMayPing
    /\ o \in ExtFailures
    /\ ext' = ExtPinged(ext, o)
    /\ hist' = ExtSeen(hist, "ping", o)
    /\ UNCHANGED <<variant, flask_thread, now, pc_main, objectVars, monVars, pc_ping, rbVars, ka_pc, ka_reg, resp, faults>>

ExitCodeAlwaysZero(h, q) == "0"

\* "if health_ok and ping_ok": sys.exit(0), else sys.exit(1)
ExitCode(h, q) == IF Truthy(PyAnd(h, q)) THEN "0" ELSE "1"

\* run_once returned / the single test is over: sys.exit
ExtDecide ==
    /\ ext.pc = "decide"
    /\ ext' = [ext EXCEPT !.pc = "exited", !.code = ExitCode(ext.health_ok, ext.ping_ok)]
    /\ UNCHANGED <<variant, flask_thread, now, pc_main, objectVars, monVars, pc_ping, rbVars, ka_pc, ka_reg, resp, faults, hist>>

\* time.sleep(interval * 60) is over: next iteration of "while True"
ExtWake ==
    /\ ext.pc = "sleep"
    /\ ext' = [ext EXCEPT !.pc = "ping"]
    /\ UNCHANGED <<variant, flask_thread, now, pc_main, objectVars, monVars, pc_ping, rbVars, ka_pc, ka_reg, resp, faults, hist>>

\* Ctrl+C in continuous mode: KeyboardInterrupt is caught, the statistics
\* are printed and the program ends normally
ExtInterrupt ==
    /\ ext.mode = "continuous"
    /\ ext.pc \in {"ping", "health", "sleep"}
    /\ ext' = [ext EXCEPT !.pc = "exited", !.code = "0"]
    /\ UNCHANGED <<variant, flask_thread, now, pc_main, objectVars, monVars, pc_ping, rbVars, ka_pc, ka_reg, resp, faults, hist>>

\* ------------------------------------------------------------ behaviours
NoResp == [route |-> "", code |-> 0, body |-> [text |-> ""]]

HistInit ==
    [ka_started |-> 0, ka_done |-> 0, ka_overlap |-> FALSE, rb_reqs |-> 0,
     cyc |-> "none", cyc_base |-> 0, cyc_attempts |-> 0, cyc_clean |-> TRUE,
     sp |-> "none", cooldown |-> "none",
     ext_o |-> [health |-> "none", ping |-> "none"]]

\* __init__ of the manager class / the module globals of webserver.py
Init ==
    /\ variant \in Variants
    /\ now = 0
    /\ pc_main = "init"
    /\ running = TRUE
    /\ ping_count = 0
    /\ last_ping = 0
    /\ restart_count = 0
    /\ teacher_process = None
    /\ student_process = None
    /\ procs = [p \in Pids |-> "none"]
    /\ worker_thread = [w \in Workers |-> "none"]
    /\ worker_running = [w \in Workers |-> FALSE]
    /\ worker_bot = [w \in Workers |-> FALSE]
    /\ pc_mon = "off"
    /\ mon_alive = [w \in Workers |-> "None"]
    /\ pc_ping = "off"
    /\ rb_pc = [c \in Callers |-> "idle"]
    /\ rb_reg = [c \in Callers |-> 0]
    /\ rb_ok = [c \in Callers |-> NoOk]
    /\ ka_pc = [k \in KaThreads |-> "idle"]
    /\ ka_reg = [k \in KaThreads |-> 0]
    /\ resp = NoResp
    /\ faults = 0
    /\ hist = HistInit
    /\ flask_thread = "none"
    /\ ext = ExtInit

KeepAliveRoute == \E k \in KaThreads : keep_alive(k) \/ KaStore(k) \/ KaRespond(k)

RestartRoute == \E r \in RbThreads : restart_bots_endpoint(r) \/ RestartRespond(r)

SelfPing == SelfPingRequest \/ SelfPingFails \/ SelfPingWake

Launch ==
    \E c \in Callers :
        \/ RbLoad(c)
        \/ RbStore(c)
        \/ kill_existing_bots(c)
        \/ \E w \in Workers : Spawn(c, w) \/ Grace(c, w)

LaunchErrors == \E c \in Callers : KillError(c) \/ \E w \in Workers : SpawnError(c, w)

WorkerThreads == \E w \in Workers : start_bot_thread(w) \/ WorkerStarted(w) \/ WorkerRaises(w) \/ WorkerReturns(w)

Supervisor ==
    \/ MonTest
    \/ MonCheck
    \/ MonRestartReturn
    \/ MonCheckThreads
    \/ \E w \in Workers : MonHandle(w)
    \/ MonError
    \/ MonWake

Startup == StartServer \/ StartReturn

Shutdown == StopBegin \/ StopTerminate \/ Exit

\* The monitor thread's own steps, error branches included.
MonitorThread ==
    \/ Supervisor
    \/ RbLoad("monitor")
    \/ RbStore("monitor")
    \/ kill_existing_bots("monitor")
    \/ KillError("monitor")
    \/ \E w \in Workers : Spawn("monitor", w) \/ SpawnError("monitor", w) \/ Grace("monitor", w)

\* The supervision side: start(), the supervisor loop, worker failures and
\* shutdown, with the read-only routes requested at any moment.
Next ==
    \/ Startup
    \/ StartFailsProcessStays
    \/ Launch
    \/ LaunchErrors
    \/ WorkerThreads
    \/ Supervisor
    \/ \E p \in Pids : WorkerExit(p)
    \/ Shutdown
    \/ home
    \/ health
    \/ ping

Spec == Init /\ [][Next]_vars

\* The same, with the supervisor loop thread scheduled fairly.
FairSpec == Spec /\ WF_vars(MonitorThread)

\* The ping side: the HTTP routes with concurrent /keep-alive requests and
\* the self-ping loop, on a system whose workers start and stay up.
NextPing ==
    \/ Startup
    \/ kill_existing_bots("main")
    \/ \E w \in Workers : Spawn("main", w) \/ Grace("main", w)
    \/ \E w \in Workers : start_bot_thread(w) \/ WorkerStarted(w)
    \/ KeepAliveRoute
    \/ SelfPing
    \/ home
    \/ health
    \/ ping
    \/ Tick
    \/ Shutdown

SpecPing == Init /\ [][NextPing]_vars

\* The restart side of BotKeepAlive24x7: /restart-bots requests served
\* concurrently with the supervisor loop; workers die by a restart's pkill.
NextRestart ==
    \/ Startup
    \/ Launch
    \/ MonTest
    \/ MonCheck
    \/ MonRestartReturn
    \/ MonWake
    \/ RestartRoute

\* The external pinger side: one run of external_keepalive_monitor.py or
\* simple_external_pinger.py against a server that starts (or fails to bind
\* its port) and launches its workers.
ExternalPinger ==
    \/ \E kind \in ExtKinds, mode \in ExtModes : ExtStart(kind, mode)
    \/ \E o \in ExtOutcomes : ExtCheckHealth(o)
    \/ ExtPingAnswered
    \/ \E o \in ExtFailures : ExtPingFails(o)
    \/ ExtDecide
    \/ ExtWake
    \/ ExtInterrupt

NextExt ==
    \/ Startup
    \/ StartServerFails
    \/ kill_existing_bots("main")
    \/ \E w \in Workers : Spawn("main", w) \/ Grace("main", w)
    \/ \E w \in Workers : start_bot_thread(w) \/ WorkerStarted(w)
    \/ \E k \in KaThreads : KaStore(k) \/ KaRespond(k)
    \/ ExternalPinger

SpecExt == Init /\ [][NextExt]_vars

\* The ping loops together: the self-ping loop of the server, and the loop of
\* an external pinger in continuous mode whose own pings all fail (its target
\* is unreachable or faulty; its answered pings are part of SpecExt).
NextLoops ==
    \/ Startup
    \/ kill_existing_bots("main")
    \/ \E w \in Workers : Spawn("main", w) \/ Grace("main", w) \/ start_bot_thread(w)
    \/ \E k \in KaThreads : KaStore(k) \/ KaRespond(k)
    \/ SelfPing
    \/ \E kind \in ExtKinds : ExtStart(kind, "continuous")
    \/ \E o \in ExtOutcomes : ExtCheckHealth(o)
    \/ \E o \in ExtFailures : ExtPingFails(o)
    \/ ExtWake

SpecLoops == Init /\ [][NextLoops]_vars

InitRestart == Init /\ variant = "keepalive"

SpecRestart == InitRestart /\ [][NextRestart]_vars

\* ------------------------------------------------------------ properties
AllKaIdle == \A k \in KaThreads : ka_pc[k] = "idle"

\* C1: after N /keep-alive requests that completed one after another (no two
\* of them ever in flight together), a /health read reports ping_count = N.
C1_SequentialPingCount ==
    ("ping_count" \in DOMAIN HealthBody /\ AllKaIdle /\ ~hist.ka_overlap)
        => HealthBody.ping_count = hist.ka_done

\* C1 witness: /health was read after two sequential /keep-alive requests and
\* reported 2.
C1_Witness ==
    /\ variant = "keepalive"
    /\ AllKaIdle /\ ~hist.ka_overlap /\ hist.ka_done = 2
    /\ resp.route = "/health"
    /\ resp.body.ping_count = 2

\* C2: increments of ping_count are atomic: once all concurrent /keep-alive
\* requests have completed, ping_count has grown by the number of requests.
C2_NoLostIncrement == AllKaIdle => ping_count = hist.ka_done

\* C10: ping_count only increases, in every interleaving of /keep-alive
\* handlers.
C10_PingCountNonDecreasing == [][ping_count' >= ping_count]_vars


\* ----- supervision

WorkerDead(w) == Handle(w) # None /\ procs[Handle(w)] = "none"

\* the supervisor loop of BotKeepAlive24x7 is running and running is True
Supervising == variant = "keepalive" /\ pc_main = "serving" /\ running

HealthFlag(w) == IF w = "teacher" THEN HealthBody.teacher_bot_running ELSE HealthBody.student_bot_running

\* C3: in BotKeepAlive24x7, when a worker process has exited while running is
\* True, the fairly scheduled supervisor loop goes on to call restart_bots,
\* and once relaunches stop failing /health reports the worker running again
\* (unless stop() ends the supervision first).
C3_DeathDetectedAndRelaunched ==
    \A w \in Workers :
        /\ (Supervising /\ WorkerDead(w)) ~> (~Supervising \/ pc_mon = "restart")
        /\ (Supervising /\ WorkerDead(w)) ~> (~Supervising \/ HealthFlag(w) = "True")

\* C3 witness: a death was followed by a relaunch by the supervisor loop and
\* /health reports both workers running.
C3_Witness ==
    /\ Supervising
    /\ hist.cyc = "closed"
    /\ restart_count >= 1
    /\ HealthBody.teacher_bot_running = "True"
    /\ HealthBody.student_bot_running = "True"

\* C4 (as stated): a death-and-relaunch cycle handled by the supervisor loop
\* raises restart_count by exactly 1, however many attempts it contains.
C4_OnePerCycle ==
    (hist.cyc = "closed" /\ hist.cyc_clean) => restart_count = hist.cyc_base + 1

\* C4 (amended): restart_count rises by 1 per restart_bots call of the
\* supervisor loop, so a cycle raises it by the number of relaunch attempts.
C4_OnePerAttempt ==
    (hist.cyc = "closed" /\ hist.cyc_clean) => restart_count = hist.cyc_base + hist.cyc_attempts

\* C4 witness: a cycle that needed two attempts has ended.
C4_Witness == hist.cyc = "closed" /\ hist.cyc_clean /\ hist.cyc_attempts = 2

\* both workers of the initial start() were spawned and exited within their
\* grace windows, and start() is about to decide
InitialLaunchFailed ==
    /\ Subprocess
    /\ pc_main = "starting"
    /\ rb_pc["main"] = "ret"
    /\ \A w \in Workers : WorkerDead(w) /\ ~rb_ok["main"][w]

\* C5: when both workers exit within the grace window of the initial start(),
\* start() leaves the process up and serving, with the supervisor loop started.
C5_FailedStartKeepsServing ==
    [][(InitialLaunchFailed /\ StartReturn) => (pc_main' = "serving" /\ pc_mon' # "off")]_vars

\* both workers alive at this moment: by process state (BotKeepAlive24x7),
\* by the running flags (IntegratedBot24x7)
BothAliveNow ==
    IF variant = "integrated"
    THEN worker_running["teacher"] /\ worker_running["student"]
    ELSE \A w \in Workers : Handle(w) # None /\ procs[Handle(w)] # "none"

\* C6: in BotKeepAlive24x7 and IntegratedBot24x7, /health returns "healthy"
\* exactly when both workers are alive at the read, else "partial".
C6_HealthyIffBothAlive ==
    variant \in {"keepalive", "integrated"}
        => HealthBody.status = (IF BothAliveNow THEN "healthy" ELSE "partial")

\* C6 witness: /health of BotKeepAlive24x7 answered "partial" with the
\* teacher dead and the student alive.
C6_Witness ==
    /\ variant = "keepalive"
    /\ resp.route = "/health"
    /\ resp.body = HealthBody
    /\ resp.body.status = "partial"
    /\ WorkerDead("teacher")
    /\ ~WorkerDead("student") /\ student_process # None

\* C7: in the CloudRunBotManager deployment, /health reports "partial"
\* whenever a worker process is dead.
C7_CloudHealthPartial ==
    (variant = "cloud" /\ ServerUp /\ \E w \in Workers : WorkerDead(w))
        => HealthBody.status = "partial"

\* every variable but the response
nonRespVars == <<variant, now, pc_main, objectVars, monVars, pc_ping, rbVars, ka_pc, ka_reg, faults, hist, flask_thread, ext>>

\* C8: whatever the workers' state, the server answers /, /health,
\* /keep-alive and /ping with 200 while it is up, and a /ping request returns
\* "pong" and changes no state.
C8_PingAlwaysPong ==
    /\ [](ServerUp => (ENABLED home /\ ENABLED health /\ ENABLED ping /\ ENABLED keep_alive("k1")))
    /\ [][resp' # resp => resp'.code = 200]_vars
    /\ [][(resp' # resp /\ resp'.route = "/ping")
            => (resp'.body = [text |-> "pong"] /\ UNCHANGED nonRespVars)]_vars

\* C8 witness: /ping answered pong after stop() with a worker long dead.
C8_Witness ==
    /\ resp = [route |-> "/ping", code |-> 200, body |-> [text |-> "pong"]]
    /\ pc_main = "stopped"
    /\ faults > 0

\* C9: restart_count never decreases, in any interleaving of the supervisor
\* loop's restart_bots with /restart-bots requests.
C9_RestartCountNonDecreasing == [][restart_count' >= restart_count]_vars

\* ----- supervision of worker threads, cooldown, shutdown

\* C11: in IntegratedBot24x7, a worker thread that has ended while running is
\* True (polling returned, the worker raised, or its import failed) is
\* replaced by the fairly scheduled monitor loop.
C11_DeadThreadReplaced ==
    \A w \in Workers :
        (variant = "integrated" /\ pc_main = "serving" /\ running /\ worker_thread[w] = "dead")
            ~> (~running \/ worker_thread[w] # "dead")

\* C12: a launch attempt of the supervisor loop never starts while the
\* previous attempt of the loop has failed and no sleep of at least the
\* cooldown has elapsed since.
C12_CooldownBeforeRetry == (Subprocess /\ pc_mon = "restart") => hist.cooldown # "failed"

\* C12 witness: the supervisor loop starts a new attempt after a failed one
\* and the cooldown.
C12_Witness ==
    /\ Subprocess
    /\ pc_mon = "restart"
    /\ rb_pc["monitor"] = "load"
    /\ hist.cooldown = "elapsed"

\* C13: stop() sets the running flag to False before it requests any
\* termination, and before it returns it has requested termination of every
\* worker it holds a handle to (process handles; bot objects in
\* IntegratedBot24x7).
C13_StopOrder ==
    /\ [](pc_main \in {"stopping", "stopped"} => ~running)
    /\ [][(pc_main = "stopping" /\ pc_main' = "stopped") =>
            /\ ~running
            /\ Subprocess => \A w \in Workers : Handle(w) # None => procs'[Handle(w)] = "none"
            /\ variant = "integrated" => \A w \in Workers : worker_bot[w] => worker_thread'[w] # "polling"]_vars
    /\ [][(procs' # procs /\ pc_main' = "stopped" /\ pc_main # "stopped") => ~running]_vars

\* C13 witness: stop() has returned with both worker processes, alive until
\* then, terminated.
C13_Witness ==
    /\ Subprocess
    /\ pc_main = "stopped"
    /\ ~running
    /\ faults = 0 /\ restart_count = 0
    /\ \A w \in Workers : WorkerDead(w)

\* C14: once stop() has set running to False, every self-ping loop and every
\* supervisor loop leaves its loop at its next loop test, so it issues no
\* further self-ping and runs no further sweep.
C14_LoopsStopAfterStop ==
    [][~running =>
        /\ (pc_ping \in {"wait", "sleep"} /\ pc_ping' # pc_ping) => pc_ping' = "done"
        /\ (pc_mon = "test" /\ pc_mon' # pc_mon) => pc_mon' = "done"]_vars

\* ----- frame effects of the routes

handlerFrame == <<ping_count, last_ping, restart_count, teacher_process, student_process, procs>>

\* C15: a step of the handler of any registered route other than /keep-alive
\* (/, /health, /ping, /restart-bots) leaves ping_count, last_ping,
\* restart_count and the worker handles and processes unchanged.
C15_OnlyKeepAliveHasEffects ==
    /\ [][(\E r \in RbThreads : rb_pc'[r] # rb_pc[r]) => UNCHANGED handlerFrame]_vars
    /\ [][(resp' # resp /\ resp'.route \in {"/", "/health", "/ping"}) => UNCHANGED handlerFrame]_vars

\* C16: a /keep-alive request handled with no other /keep-alive request in
\* flight sets last_ping to the current time, raises ping_count by exactly 1,
\* answers status "alive" with the new ping_count and the new last_ping, and
\* leaves restart_count and the worker handles and processes unchanged.
C16_KeepAliveEffect ==
    /\ [][\A k \in KaThreads : (ka_pc[k] = "idle" /\ ka_pc'[k] = "loaded") =>
            (last_ping' = now /\ UNCHANGED <<ping_count, restart_count, procVars>>)]_vars
    /\ [][\A k \in KaThreads : (ka_pc[k] = "loaded" /\ ka_pc'[k] = "stored" /\ ~hist.ka_overlap) =>
            (ping_count' = ping_count + 1 /\ UNCHANGED <<last_ping, restart_count, procVars>>)]_vars
    /\ [][\A k \in KaThreads : (ka_pc[k] = "stored" /\ ka_pc'[k] = "idle" /\ ~hist.ka_overlap) =>
            /\ resp' = [route |-> "/keep-alive", code |-> 200, body |-> resp'.body]
            /\ resp'.body.status = "alive"
            /\ resp'.body.ping_count = hist.ka_done + 1
            /\ resp'.body.ping_count = ping_count
            /\ resp'.body.timestamp = last_ping
            /\ UNCHANGED handlerFrame]_vars

\* C16 witness: the second of two sequential /keep-alive requests, made after
\* the clock advanced, answered ping_count 2 and the new last_ping.
C16_Witness ==
    /\ resp.route = "/keep-alive"
    /\ AllKaIdle /\ ~hist.ka_overlap
    /\ resp.body.status = "alive"
    /\ resp.body.ping_count = 2 /\ ping_count = 2
    /\ resp.body.timestamp = 1 /\ last_ping = 1 /\ now = 1

\* ----- the /health body

HealthFields ==
    {"status", "uptime_seconds", "uptime_formatted", "teacher_bot_running",
     "student_bot_running", "restart_count", "last_ping", "ping_count", "timestamp"}

\* C17: whenever the server answers, the per-worker fields of /health are
\* booleans, also before the first worker launch (handles still None).
C17_RunningFlagsBoolean ==
    (ServerUp /\ "teacher_bot_running" \in DOMAIN HealthBody)
        => (HealthBody.teacher_bot_running \in {"True", "False"}
            /\ HealthBody.student_bot_running \in {"True", "False"})

\* C18: the /health body of every server variant carries all nine fields.
C18_HealthHasAllFields == ServerUp => HealthFields \subseteq DOMAIN HealthBody

\* ----- self-ping loop

\* C19: the self-ping loop is about to make an attempt only after a full
\* sleep since its previous attempt, whether that attempt succeeded or failed.
C19_NoImmediateRetry ==
    (ProcessUp /\ pc_ping = "ready") => hist.sp \in {"due", "due_after_fail"}

\* C19 witness: the loop is about to ping again after a failed self-ping and
\* the sleep that followed it.
C19_Witness == ProcessUp /\ pc_ping = "ready" /\ hist.sp = "due_after_fail"

\* C20: once start() has returned and the process is up, the self-ping loop
\* thread exists, also when a worker launch failed.
C20_SelfPingIndependent ==
    (ProcessUp /\ pc_main \in {"serving", "failed"}) => pc_ping # "off"

\* ----- ping loops and the external pinger

\* C21: a failed ping (connection error, timeout, non-200, unparseable body)
\* ends no ping loop: a self-ping loop goes to its sleep and from there to
\* its next ping, and the continuous loop of ExternalKeepAliveMonitor /
\* simple_external_pinger goes to its sleep (through the health check on
\* every 6th ping) and from there to its next ping.
C21_PingLoopsSurviveErrors ==
    /\ [][(hist'.sp = "failed" /\ hist.sp # "failed") => pc_ping' = "sleep"]_vars
    /\ [][(pc_ping = "sleep" /\ pc_ping' # pc_ping /\ (running \/ variant = "cloud")) => pc_ping' = "ready"]_vars
    /\ []((ProcessUp /\ pc_ping = "sleep") => ENABLED SelfPingWake)
    /\ [][(ext.mode = "continuous" /\ ext'.ping_count = ext.ping_count + 1 /\ ext'.ping_ok = "False")
            => ext'.pc = (IF ext'.ping_count % 6 = 0 THEN "health" ELSE "sleep")]_vars
    /\ [][(ext.mode = "continuous" /\ ext.pc = "health" /\ ext'.pc # ext.pc) => ext'.pc = "sleep"]_vars
    /\ [][(ext.mode = "continuous" /\ ext.pc = "sleep" /\ ext'.pc # ext.pc) => ext'.pc = "ping"]_vars
    /\ []((ext.mode = "continuous" /\ ext.pc = "sleep") => ENABLED ExtWake)

\* C21 witness: after a failed ping each, the self-ping loop and the loop of
\* ExternalKeepAliveMonitor are both at their next ping.
C21_Witness ==
    /\ pc_ping = "ready" /\ hist.sp = "due_after_fail"
    /\ ext.kind = "monitor" /\ ext.mode = "continuous"
    /\ ext.pc = "ping" /\ ext.ping_ok = "False" /\ ext.error_count >= 1

\* C22: when the HTTP server cannot bind its port, start() does not go on to
\* launch workers.
C22_BindFailureStopsStart ==
    flask_thread = "failed" =>
        /\ teacher_process = None /\ student_process = None
        /\ \A w \in Workers : worker_thread[w] = "none"

\* C23: ExternalKeepAliveMonitor in "once" mode exits with code 0 exactly
\* when the /health call and the /keep-alive call were both answered 200 with
\* a body that parses, and with code 1 otherwise.
C23_OnceExitCode ==
    (ext.kind = "monitor" /\ ext.mode = "once" /\ ext.pc = "exited") =>
        ext.code = (IF hist.ext_o.health = "ok" /\ hist.ext_o.ping = "ok" THEN "0" ELSE "1")

\* C23 witness: /health was fine, /keep-alive answered 200 with a body that
\* does not parse, and the monitor exited with code 1.
C23_Witness ==
    /\ ext.kind = "monitor" /\ ext.mode = "once" /\ ext.pc = "exited"
    /\ hist.ext_o.health = "ok" /\ hist.ext_o.ping = "unparseable"
    /\ ext.code = "1"

\* C24: for /keep-alive calls made one after the other, the last-ping time
\* stored by each call is strictly greater than the one stored by the call
\* before it (and the calls served so far are all counted in ping_count).
C24_LastPingStrictlyIncreases ==
    /\ [][(AllKaIdle /\ ~hist.ka_overlap /\ hist.ka_done >= 1
            /\ hist'.ka_started = hist.ka_started + 1) => last_ping' > last_ping]_vars
    /\ []((AllKaIdle /\ ~hist.ka_overlap) => ping_count = hist.ka_done)

\* ----- supervision: relaunches, races, stop, errors

\* is worker w's process, as the manager's handle names it, running?
WorkerAlive(w) == Handle(w) # None /\ procs[Handle(w)] # "none"

\* C25: a step of the supervisor loop's restart_bots leaves a worker that is
\* running alone: its process stays alive and the manager's handle to it is
\* not replaced (only the worker found dead is relaunched).
C25_OnlyDeadWorkerRelaunched ==
    [][(pc_mon = "restart" /\ rb_pc'["monitor"] # rb_pc["monitor"]) =>
        \A w \in Workers :
            WorkerAlive(w) => (Handle(w)' = Handle(w) /\ procs'[Handle(w)] # "none")]_vars

\* C26: in BotKeepAlive24x7 every live worker process is the one the
\* manager's handle for that worker refers to (so there is at most one per
\* worker), whatever the interleaving of restart_bots calls.
C26_OneOwnedProcessPerWorker ==
    \A p \in Pids : procs[p] # "none" => p = Handle(procs[p])

\* C27: once stop() has returned, no worker process is started any more.
C27_NoLaunchAfterStop ==
    [][pc_main = "stopped" => \A p \in Pids : procs[p] = "none" => procs'[p] = "none"]_vars

\* C28: an exception in the supervisor loop's liveness check changes neither
\* restart_count nor the worker handles, processes or threads and starts no
\* restart_bots; the loop goes to its error delay, from there to the loop
\* test, and (fairly scheduled, while running) to the next sweep.
C28_SweepErrorNoRestart ==
    /\ [][(pc_mon = "check" /\ pc_mon' # pc_mon /\ faults' # faults) =>
            /\ pc_mon' = "errsleep"
            /\ UNCHANGED <<restart_count, teacher_process, student_process, procs, worker_thread, rb_pc>>]_vars
    /\ [][(pc_mon = "errsleep" /\ pc_mon' # pc_mon) =>
            /\ pc_mon' = "test"
            /\ UNCHANGED <<restart_count, teacher_process, student_process, procs, worker_thread, rb_pc>>]_vars
    /\ [][(pc_mon = "test" /\ pc_mon' # pc_mon /\ running) => pc_mon' = "check"]_vars
    /\ (pc_mon = "errsleep") ~> (pc_mon = "check" \/ ~running \/ ~ProcessUp)

\* C28 witness: the sweep raised while a worker was dead; the loop is in its
\* error delay and no restart has been made.
C28_Witness ==
    /\ pc_mon = "errsleep" /\ running
    /\ restart_count = 0
    /\ \A c \in Callers : c # "main" => rb_pc[c] = "idle"
    /\ \E w \in Workers : WorkerDead(w)

C30_NeverGivesUp ==
    (Subprocess /\ pc_main = "serving" /\ running /\ hist.cooldown = "failed"
        /\ \E w \in Workers : ~WorkerAlive(w))
        ~> (pc_main # "serving" \/ ~running \/ (pc_mon = "restart" /\ rb_pc["monitor"] = "load"))

\* C30 witness: the loop starts one more attempt for the same death, after
\* an attempt that failed.
C30_Witness ==
    /\ Subprocess /\ running
    /\ pc_mon = "restart" /\ rb_pc["monitor"] = "load"
    /\ hist.cyc = "open" /\ hist.cyc_attempts >= 2
    /\ \E w \in Workers : ~WorkerAlive(w)

\* ----- sweep cadence, /health at request time, the external pingers' results

\* C31: whenever the supervisor loop finishes a sweep and starts waiting,
\* the wait until its next sweep is the one fixed interval of 120 s.
C31_FixedSweepInterval ==
    [][(pc_mon \notin MonSleeps /\ pc_mon' \in MonSleeps)
        => WaitToNextSweep(pc_mon') = SweepInterval]_vars

\* C32: a /health response of BotKeepAlive24x7 reports a worker as running
\* exactly when the process its handle refers to at the time of the request
\* has not exited; never True for a worker whose held process has exited.
C32_HealthReadsCurrentHandle ==
    [][(variant = "keepalive" /\ resp' # resp /\ resp'.route = "/health") =>
        \A w \in Workers :
            LET flag == IF w = "teacher" THEN resp'.body.teacher_bot_running
                        ELSE resp'.body.student_bot_running
            IN /\ WorkerDead(w) => flag # "True"
               /\ flag = "True" <=> WorkerAlive(w)]_vars

\* C32 witness: the teacher process has exited and no sweep has acted on it
\* yet (the loop sleeps, no restart was made); /health reports it not running.
C32_Witness ==
    /\ variant = "keepalive"
    /\ resp.route = "/health" /\ resp.body = HealthBody
    /\ resp.body.teacher_bot_running = "False"
    /\ resp.body.student_bot_running = "True"
    /\ WorkerDead("teacher")
    /\ pc_mon = "sleep" /\ restart_count = 0

\* C33: ExternalKeepAliveMonitor counts every ping once, as a success or as
\* an error: ping_count = success_count + error_count.
C33_PingCountedOnce ==
    ext.kind = "monitor" => ext.ping_count = ext.success_count + ext.error_count

\* C34: the single test of simple_external_pinger finds the service healthy
\* when /health answers 200 while all workers of the server run, in each
\* server variant, and exits with code 0 exactly when it found the service
\* healthy and /keep-alive answered 200 too (code 1 otherwise).
C34_SingleTestExitCode ==
    /\ [][(ext.kind = "pinger" /\ ext.mode = "once" /\ ext.pc = "health" /\ ext'.pc # ext.pc
            /\ hist'.ext_o.health = "ok" /\ BothAliveNow) => ext'.health_ok = "True"]_vars
    /\ []((ext.kind = "pinger" /\ ext.mode = "once" /\ ext.pc = "exited") =>
            ext.code = (IF ext.health_ok = "True" /\ hist.ext_o.ping = "ok" THEN "0" ELSE "1"))

====
